---- MODULE Spec2Model ----
(***************************************************************************)
(* Risk governance of the HFT repository: the three risk-control classes   *)
(*   RiskLimits            src/risk_management/limits.py                   *)
(*   RiskManager           src/execution/risk_manager.py                   *)
(*   RealTimeRiskMonitor   src/risk_management/real_time_monitoring.py     *)
(* Each object is one record-valued variable whose fields carry the names  *)
(* of the Python attributes.  Methods are operators from a record (and the *)
(* clock) to the method's result and the record after the call; the        *)
(* actions apply them to the variables.  The three classes share no state, *)
(* so each is exercised by specifications of its own.                      *)
(*                                                                         *)
(* Time is the wall clock in whole seconds (datetime.now()); a date is     *)
(* the clock divided by SecondsPerDay.                                     *)
(***************************************************************************)
EXTENDS Integers, Sequences, FiniteSets, TLC

VARIABLES
    main,     \* which of the three objects this run of the program drives
    now,      \* wall clock, seconds
    rl,       \* the RiskLimits object
    rm,       \* the RiskManager object
    mon,      \* the RealTimeRiskMonitor object
    th,       \* the thread running monitor_risk: where it is in the loop
    logged,   \* what the monitor has written to the log, counted per message
    call,     \* the last method call made: its name, argument, return value,
              \* the checks it ran in order, and the name of the call before it
    obs       \* history the claims are stated over (not program state)

vars == <<main, now, rl, rm, mon, th, logged, call, obs>>

----------------------------------------------------------------------------
(* Program constants *)

SecondsPerMinute == 60
SecondsPerDay == 86400

(* Python values *)

None == <<>>
Some(x) == <<x>>
Val(o) == o[1]

Py(b) == IF b THEN "True" ELSE "False"

Abs(x) == IF x < 0 THEN -x ELSE x

Date(t) == t \div SecondsPerDay

EmptyDict == [k \in {} |-> 0]

\* d[k] += v, d[k] starting at 0 when k is not yet a key
DictAdd(d, k, v) ==
    [x \in DOMAIN d \cup {k} |->
        IF x = k THEN (IF k \in DOMAIN d THEN d[k] ELSE 0) + v ELSE d[x]]

RECURSIVE SumOver(_, _)
SumOver(d, keys) ==
    IF keys = {} THEN 0
    ELSE LET k == CHOOSE x \in keys : TRUE
         IN  d[k] + SumOver(d, keys \ {k})

DictSum(d) == SumOver(d, DOMAIN d)

CalledWith(op, arg, ret, checks) ==
    [op |-> op, arg |-> arg, ret |-> ret, checks |-> checks]

Called(op, ret, checks) == CalledWith(op, None, ret, checks)

----------------------------------------------------------------------------
(* Bounds of the model *)

MaxTime == 125          \* the clock stops advancing past this second of a day
MaxDays == 1            \* day boundaries crossed
MaxOrders == 4          \* check_order_rate calls in one behaviour
LossCap == 5            \* |current_loss_per_day| explored
MaxTrades == 3          \* record_trade calls in one behaviour
MaxFills == 2           \* position updates in one behaviour
MaxCloses == 1          \* close_position calls in one behaviour
MaxTicks == 2           \* iterations of the monitoring loop
MaxSubmits == 1         \* orders the execution layer submits
MaxOverdue == 2         \* update intervals counted after stop_monitoring
MaxReports == 1         \* generate_risk_report calls in one behaviour

----------------------------------------------------------------------------
(* History the claims are stated over.                                     *)
(*   order_times  the times at which check_order_rate ran                  *)
(*   reset_from   the daily loss and breached flag the last                *)
(*                reset_daily_limits call cleared                          *)
(*   after_reset  the call before the last one was reset_daily_limits      *)
(*   failed       an evaluation has failed since the last operator reset   *)
(*   loss_on      per date, the sum of the losses record_trade was given   *)
(*   loss_sum     the sum of the losses update_trade_loss was given since  *)
(*                the last reset_daily_limits                              *)
(*   n_trades     record_trade calls made                                  *)
(*   n_fills      update_position calls made                               *)
(*   fills        per symbol, the sum of the changes update_position was   *)
(*                given                                                    *)
(*   open         the sum of the sizes update_position_size was given      *)
(*                since the last close_position                            *)
(*   n_ticks      iterations of the monitoring loop begun                  *)
(*   overdue      update intervals that have passed since stop_monitoring  *)
(*                was called with the loop's thread still alive            *)
(*   n_reports    generate_risk_report calls made                          *)
(*   report       what the last of them returned                           *)
(*   guard        for each caller of the RiskLimits, the position size it  *)
(*                was told it can take and has not yet recorded            *)
(*   submitted    orders submitted by the execution layer                  *)
(*   accepted_after_halt   of these, accepted after halt_trading had run   *)

ObsInit ==
    [ order_times |-> <<>>,
      reset_from  |-> [loss |-> 0, breached |-> FALSE],
      after_reset |-> FALSE,
      failed      |-> FALSE,
      loss_on     |-> [d \in 0..MaxDays |-> 0],
      loss_sum    |-> 0,
      n_trades    |-> 0,
      n_fills     |-> 0,
      fills       |-> [s \in {"AAPL", "GOOG"} |-> 0],
      open        |-> 0,
      n_ticks     |-> 0,
      overdue     |-> 0,
      n_reports   |-> 0,
      report      |-> None,
      guard       |-> [c \in {1, 2} |-> None],
      submitted   |-> 0,
      accepted_after_halt |-> 0 ]

OrderSeen(o, t) == [o EXCEPT !.order_times = Append(@, t)]

\* a call on the RiskLimits object other than reset_daily_limits follows
Followed(o) == [o EXCEPT !.after_reset = (call.op = "reset_daily_limits")]

Evaluated(o, ret) == [o EXCEPT !.failed = @ \/ ~ret]

----------------------------------------------------------------------------
(* RiskLimits: construction (limits.py, __init__) *)

RLMaxPositionSize == 3
RLMaxLossPerDay == 3
RLMaxTradeLoss == 2
RLStopLossThreshold == -2
RLMaxOrdersPerMinute == 2

RiskLimitsInit ==
    [ max_position_size     |-> RLMaxPositionSize,
      max_loss_per_day      |-> RLMaxLossPerDay,
      max_trade_loss        |-> RLMaxTradeLoss,
      stop_loss_threshold   |-> RLStopLossThreshold,
      max_orders_per_minute |-> RLMaxOrdersPerMinute,
      current_position_size |-> 0,
      current_loss_per_day  |-> 0,
      current_trade_loss    |-> 0,
      orders_this_minute    |-> 0,
      last_order_time       |-> None,
      daily_limit_breached  |-> FALSE,
      trades                |-> <<>>,
      closed_positions      |-> <<>> ]

(* RiskLimits: methods.  A method that returns a value gives [ret, rl]:   *)
(* the value returned and the object after the call.                      *)

\* timedelta.seconds of (t - last): the seconds component only, days dropped
TimedeltaSeconds(t, last) == (t - last) % SecondsPerDay

\* the guard without its test: every position can be taken
RL_can_take_position_Always(r, position_size) == TRUE

RL_can_take_position(r, position_size) ==
    ~(Abs(r.current_position_size + position_size) > r.max_position_size)

RL_update_position_size(r, position_size, t) ==
    [r EXCEPT !.current_position_size = @ + position_size,
              !.trades = Append(@, [timestamp |-> t,
                                    position_size |-> position_size])]

RL_update_trade_loss(r, trade_loss) ==
    [r EXCEPT !.current_trade_loss = @ + trade_loss,
              !.current_loss_per_day = @ + trade_loss]

\* a check that sets the flag to what it finds, clearing it when within the limit
RL_check_daily_loss_limit_Recomputes(r) ==
    IF Abs(r.current_loss_per_day) > r.max_loss_per_day
    THEN [ret |-> FALSE, rl |-> [r EXCEPT !.daily_limit_breached = TRUE]]
    ELSE [ret |-> TRUE, rl |-> [r EXCEPT !.daily_limit_breached = FALSE]]

RL_check_daily_loss_limit(r) ==
    IF Abs(r.current_loss_per_day) > r.max_loss_per_day
    THEN [ret |-> FALSE, rl |-> [r EXCEPT !.daily_limit_breached = TRUE]]
    ELSE [ret |-> TRUE, rl |-> r]

\* a reset that clears the flag and leaves the accumulated loss
RL_reset_daily_limits_KeepsLoss(r) ==
    [r EXCEPT !.current_trade_loss = 0,
              !.daily_limit_breached = FALSE]

RL_reset_daily_limits(r) ==
    [r EXCEPT !.current_loss_per_day = 0,
              !.current_trade_loss = 0,
              !.daily_limit_breached = FALSE]

\* a counter per calendar minute: reset when the minute of the clock changes
RL_check_order_rate_PerBucket(r, t) ==
    LET counted ==
            IF r.last_order_time # None
            THEN IF t \div SecondsPerMinute = Val(r.last_order_time) \div SecondsPerMinute
                 THEN r.orders_this_minute + 1
                 ELSE 1
            ELSE 1
        after == [r EXCEPT !.orders_this_minute = counted,
                           !.last_order_time = Some(t)]
    IN  [ret |-> ~(counted > r.max_orders_per_minute), rl |-> after]

RL_check_order_rate(r, t) ==
    LET counted ==
            IF r.last_order_time # None
            THEN IF TimedeltaSeconds(t, Val(r.last_order_time)) < SecondsPerMinute
                 THEN r.orders_this_minute + 1
                 ELSE 1
            ELSE 1
        after == [r EXCEPT !.orders_this_minute = counted,
                           !.last_order_time = Some(t)]
    IN  [ret |-> ~(counted > r.max_orders_per_minute), rl |-> after]

RL_close_position(r, position_value, t) ==
    [r EXCEPT !.closed_positions =
                  Append(@, [timestamp |-> t,
                             closed_position_value |-> position_value]),
              !.current_position_size = 0]

\* evaluate_risk, with the checks it ran, in order
RL_evaluate_risk(r, t) ==
    LET daily == RL_check_daily_loss_limit(r)
        rate == RL_check_order_rate(daily.rl, t)
    IN  IF ~daily.ret
        THEN [ret |-> FALSE, rl |-> daily.rl, checks |-> <<"daily_loss">>]
        ELSE [ret |-> rate.ret, rl |-> rate.rl,
              checks |-> <<"daily_loss", "order_rate">>]

\* The checks evaluate_risk has
RLAllChecks == <<"daily_loss", "order_rate">>

----------------------------------------------------------------------------
(* RiskManager: construction (risk_manager.py, __init__ and the usage)    *)

RMMaxPositionSize == 2
RMMaxDailyLoss == 4

\* A limit's threshold is the rational n/d, d > 0
RMRiskLimits ==
    << [name |-> "Max Drawdown", metric |-> "max_drawdown", value |-> [n |-> 2, d |-> 1]],
       [name |-> "Volatility",   metric |-> "volatility",   value |-> [n |-> 3, d |-> 2]],
       [name |-> "Sharpe Ratio", metric |-> "sharpe_ratio", value |-> [n |-> 3, d |-> 2]] >>

RiskManagerInit(t) ==
    [ max_position_size     |-> RMMaxPositionSize,
      max_daily_loss        |-> RMMaxDailyLoss,
      risk_limits           |-> RMRiskLimits,
      current_position_size |-> 0,
      current_loss          |-> 0,
      trade_history         |-> <<>>,
      daily_loss_tracker    |-> EmptyDict,
      position_tracker      |-> EmptyDict,
      trade_metrics         |-> EmptyDict,
      start_of_day          |-> Date(t) ]

(* RiskManager: methods *)

RM_update_position(r, position_change, symbol) ==
    [r EXCEPT !.position_tracker = DictAdd(@, symbol, position_change),
              !.current_position_size = @ + position_change]

RM__update_daily_loss(r, symbol, loss, t) ==
    LET today == Date(t)
        day == IF today # r.start_of_day
               THEN [r EXCEPT !.daily_loss_tracker = EmptyDict,
                              !.start_of_day = today]
               ELSE r
    IN  [day EXCEPT !.daily_loss_tracker = DictAdd(@, symbol, loss)]

NoMetrics == [total_trades |-> 0, total_profit |-> 0, total_loss |-> 0]

\* metrics that keep the loss of the symbol's last trade and not the total
RM__track_trade_metrics_LastLoss(r, trade) ==
    LET symbol == trade.symbol
        old == IF symbol \in DOMAIN r.trade_metrics
               THEN r.trade_metrics[symbol] ELSE NoMetrics
        new == [total_trades |-> old.total_trades + 1,
                total_profit |-> old.total_profit + trade.profit,
                total_loss   |-> trade.loss]
    IN  [r EXCEPT !.trade_metrics =
            [s \in DOMAIN @ \cup {symbol} |-> IF s = symbol THEN new ELSE @[s]]]

RM__track_trade_metrics(r, trade) ==
    LET symbol == trade.symbol
        old == IF symbol \in DOMAIN r.trade_metrics
               THEN r.trade_metrics[symbol] ELSE NoMetrics
        new == [total_trades |-> old.total_trades + 1,
                total_profit |-> old.total_profit + trade.profit,
                total_loss   |-> old.total_loss + trade.loss]
    IN  [r EXCEPT !.trade_metrics =
            [s \in DOMAIN @ \cup {symbol} |-> IF s = symbol THEN new ELSE @[s]]]

RM_record_trade(r, trade, t) ==
    LET appended == [r EXCEPT !.trade_history = Append(@, trade),
                              !.current_loss = @ + trade.loss]
    IN  RM__track_trade_metrics(
            RM__update_daily_loss(appended, trade.symbol, trade.loss, t), trade)

(* The metrics of the custom limits.  Volatility and the Sharpe ratio are *)
(* not integers: each comparison metric <= n/d is decided exactly, over   *)
(* the integers, by clearing denominators and squaring.                   *)

RECURSIVE DrawdownFrom(_, _, _, _)
\* the loop of _calculate_max_drawdown from trade i on; peak None is -inf
DrawdownFrom(h, i, peak, max_drawdown) ==
    IF i > Len(h) THEN max_drawdown
    ELSE LET p == h[i].profit
             newpeak == IF peak = None \/ p > Val(peak) THEN p ELSE Val(peak)
             drawdown == newpeak - p
         IN  DrawdownFrom(h, i + 1, Some(newpeak),
                          IF drawdown > max_drawdown THEN drawdown ELSE max_drawdown)

RM__calculate_max_drawdown(r) == DrawdownFrom(r.trade_history, 1, None, 0)

RECURSIVE SeqSum(_, _)
SeqSum(f, n) == IF n = 0 THEN 0 ELSE f[n] + SeqSum(f, n - 1)

ProfitSum(h) == SeqSum([i \in 1..Len(h) |-> h[i].profit], Len(h))

\* sum of (N*x - S)^2 over the profits x: N^2 (N-1) times the sample variance
ScaledSquares(h) ==
    LET N == Len(h)
        S == ProfitSum(h)
    IN  SeqSum([i \in 1..N |-> (N * h[i].profit - S) * (N * h[i].profit - S)], N)

RiskFreeRateDen == 50   \* risk_free_rate = 0.02 = 1/50

\* _calculate_volatility() <= n/d
VolatilityAtMost(h, n, d) ==
    IF Len(h) < 2 THEN 0 <= n
    ELSE n >= 0 /\ ScaledSquares(h) * d * d <= n * n * Len(h) * Len(h) * (Len(h) - 1)

\* _calculate_sharpe_ratio() <= n/d
SharpeAtMost(h, n, d) ==
    LET N == Len(h)
        Q == ScaledSquares(h)
        A == RiskFreeRateDen * ProfitSum(h) - N   \* sign of mean - risk free rate
        lhs == A * A * d * d * (N - 1)
        rhs == RiskFreeRateDen * RiskFreeRateDen * n * n * Q
    IN  IF N < 2 \/ Q = 0 THEN 0 <= n             \* volatility 0: the ratio is 0
        ELSE IF n >= 0 THEN A <= 0 \/ lhs <= rhs
        ELSE A < 0 /\ lhs >= rhs

\* _check_custom_limit: _calculate_metric(limit['metric']) <= limit['value']
RM__check_custom_limit(r, limit) ==
    LET n == limit.value.n
        d == limit.value.d
    IN  CASE limit.metric = "max_drawdown" -> RM__calculate_max_drawdown(r) * d <= n
          [] limit.metric = "volatility"   -> VolatilityAtMost(r.trade_history, n, d)
          [] limit.metric = "sharpe_ratio" -> SharpeAtMost(r.trade_history, n, d)
          [] OTHER -> 0 <= n

LimitNames(r, upto) == [i \in 1..upto |-> r.risk_limits[i].name]

\* an exclusive bound: a position of exactly the limit is refused
RM_PortfolioExceeded_AtLimit(r) ==
    Abs(r.current_position_size) >= r.max_position_size

\* the first test of check_risk_limits
RM_PortfolioExceeded(r) ==
    Abs(r.current_position_size) > r.max_position_size

\* check_risk_limits, with the checks it ran, in order
RM_check_risk_limits(r) ==
    LET failing == {i \in 1..Len(r.risk_limits) :
                       ~RM__check_custom_limit(r, r.risk_limits[i])}
        first == CHOOSE i \in failing : \A j \in failing : i <= j
    IN  IF RM_PortfolioExceeded(r)
        THEN [ret |-> FALSE, checks |-> <<"portfolio_position">>]
        ELSE IF r.current_loss > r.max_daily_loss
        THEN [ret |-> FALSE, checks |-> <<"portfolio_position", "daily_loss">>]
        ELSE IF failing # {}
        THEN [ret |-> FALSE,
              checks |-> <<"portfolio_position", "daily_loss">> \o LimitNames(r, first)]
        ELSE [ret |-> TRUE,
              checks |-> <<"portfolio_position", "daily_loss">>
                             \o LimitNames(r, Len(r.risk_limits))]

\* a reset that forgets the positions of the symbols too
RM_reset_risk_ClearsPositions(r) ==
    [r EXCEPT !.current_position_size = 0,
              !.current_loss = 0,
              !.trade_history = <<>>,
              !.daily_loss_tracker = EmptyDict,
              !.position_tracker = EmptyDict,
              !.trade_metrics = EmptyDict]

RM_reset_risk(r) ==
    [r EXCEPT !.current_position_size = 0,
              !.current_loss = 0,
              !.trade_history = <<>>,
              !.daily_loss_tracker = EmptyDict,
              !.trade_metrics = EmptyDict]

RM__enforce_stop_loss(r) ==
    IF r.current_loss >= r.max_daily_loss
    THEN [ret |-> TRUE, rm |-> RM_reset_risk(r)]
    ELSE [ret |-> FALSE, rm |-> r]

RM__enforce_position_limits(r) ==
    ~ \E symbol \in DOMAIN r.position_tracker :
          Abs(r.position_tracker[symbol]) > r.max_position_size

\* real_time_risk_monitoring, with the checks it ran, in order
RM_real_time_risk_monitoring(r) ==
    LET stop == RM__enforce_stop_loss(r)
        rest == RM_check_risk_limits(stop.rm)
    IN  IF ~RM__enforce_position_limits(r)
        THEN [ret |-> FALSE, rm |-> r, checks |-> <<"symbol_position">>]
        ELSE IF stop.ret
        THEN [ret |-> FALSE, rm |-> stop.rm,
              checks |-> <<"symbol_position", "stop_loss">>]
        ELSE [ret |-> rest.ret, rm |-> stop.rm,
              checks |-> <<"symbol_position", "stop_loss">> \o rest.checks]

\* The checks each evaluation of the RiskManager has
RMAllChecks(r, op) ==
    LET own == <<"portfolio_position", "daily_loss">>
                   \o LimitNames(r, Len(r.risk_limits))
    IN  IF op = "real_time_risk_monitoring"
        THEN <<"symbol_position", "stop_loss">> \o own
        ELSE own

----------------------------------------------------------------------------
(* The clock *)

ClockSteps == {30, 31, 60}

Advance ==
    /\ \E d \in ClockSteps :
          /\ (now % SecondsPerDay) + d <= MaxTime
          /\ now' = now + d
    /\ UNCHANGED <<main, rl, rm, mon, th, logged, call, obs>>

AdvanceDay ==
    /\ Date(now) < MaxDays
    /\ now' = now + SecondsPerDay
    /\ UNCHANGED <<main, rl, rm, mon, th, logged, call, obs>>

----------------------------------------------------------------------------
(* RiskLimits: actions *)

notRL == <<main, now, rm, mon, th, logged>>

CheckOrderRate ==
    /\ Len(obs.order_times) < MaxOrders
    /\ LET res == RL_check_order_rate(rl, now)
       IN  /\ rl' = res.rl
           /\ call' = Called("check_order_rate", Py(res.ret), <<"order_rate">>)
    /\ obs' = Followed(OrderSeen(obs, now))
    /\ UNCHANGED notRL

PositionSizes == {-3, -1, 1, 2}

CanTakePosition ==
    /\ \E p \in PositionSizes :
          call' = CalledWith("can_take_position", Some(p),
                             Py(RL_can_take_position(rl, p)), <<"position">>)
    /\ obs' = Followed(obs)
    /\ UNCHANGED <<notRL, rl>>

UpdatePositionSize ==
    /\ Len(rl.trades) < MaxFills
    /\ \E p \in PositionSizes :
          /\ rl' = RL_update_position_size(rl, p, now)
          /\ obs' = [Followed(obs) EXCEPT !.open = @ + p]
    /\ call' = Called("update_position_size", "None", <<>>)
    /\ UNCHANGED notRL

ClosePosition ==
    /\ Len(rl.closed_positions) < MaxCloses
    /\ \E v \in {0, rl.current_position_size} : rl' = RL_close_position(rl, v, now)
    /\ call' = Called("close_position", "None", <<>>)
    /\ obs' = [Followed(obs) EXCEPT !.open = 0]
    /\ UNCHANGED notRL

(* Callers that ask can_take_position before each update_position_size:  *)
(* one caller, or two whose calls interleave.                            *)
Callers == IF main = "callers" THEN {1, 2} ELSE {1}

\* the sizes the callers ask for: one of them is over the limit by itself
GuardedSizes == PositionSizes \cup {5}

\* if can_take_position(p): ...
GuardedCheck ==
    /\ \E c \in Callers, p \in GuardedSizes :
          /\ obs.guard[c] = None
          /\ LET ok == RL_can_take_position(rl, p)
             IN  /\ call' = CalledWith("can_take_position", Some(p), Py(ok),
                                       <<"position">>)
                 /\ obs' = [Followed(obs) EXCEPT
                               !.guard[c] = IF ok THEN Some(p) ELSE None]
    /\ UNCHANGED <<notRL, rl>>

\* ... update_position_size(p)
GuardedUpdate ==
    /\ Len(rl.trades) < MaxFills
    /\ \E c \in Callers :
          /\ obs.guard[c] # None
          /\ rl' = RL_update_position_size(rl, Val(obs.guard[c]), now)
          /\ obs' = [Followed(obs) EXCEPT !.open = @ + Val(obs.guard[c]),
                                          !.guard[c] = None]
    /\ call' = Called("update_position_size", "None", <<>>)
    /\ UNCHANGED notRL

\* close_position by a caller that is not between its check and its update
GuardedClose ==
    /\ \E c \in Callers : obs.guard[c] = None
    /\ ClosePosition

TradeLosses == {-2, 1, 2, 3}

UpdateTradeLoss ==
    /\ \E l \in TradeLosses :
          /\ Abs(rl.current_loss_per_day + l) <= LossCap
          /\ rl' = RL_update_trade_loss(rl, l)
          /\ call' = CalledWith("update_trade_loss", Some(l), "None", <<>>)
          /\ obs' = [Followed(obs) EXCEPT !.loss_sum = @ + l]
    /\ UNCHANGED notRL

CheckDailyLossLimit ==
    /\ LET res == RL_check_daily_loss_limit(rl)
       IN  /\ rl' = res.rl
           /\ call' = Called("check_daily_loss_limit", Py(res.ret), <<"daily_loss">>)
           /\ obs' = Followed(Evaluated(obs, res.ret))
    /\ UNCHANGED notRL

ResetDailyLimits ==
    /\ rl' = RL_reset_daily_limits(rl)
    /\ call' = Called("reset_daily_limits", "None", <<>>)
    /\ obs' = [obs EXCEPT !.reset_from = [loss |-> rl.current_loss_per_day,
                                          breached |-> rl.daily_limit_breached],
                          !.after_reset = FALSE,
                          !.loss_sum = 0,
                          !.failed = FALSE]
    /\ UNCHANGED notRL

EvaluateRisk ==
    /\ Len(obs.order_times) < MaxOrders
    /\ LET res == RL_evaluate_risk(rl, now)
       IN  /\ rl' = res.rl
           /\ call' = Called("evaluate_risk", Py(res.ret), res.checks)
           /\ obs' = Followed(Evaluated(IF Len(res.checks) = 2
                                        THEN OrderSeen(obs, now) ELSE obs,
                                        res.ret))
    /\ UNCHANGED notRL

----------------------------------------------------------------------------
(* RiskManager: actions *)

notRM == <<main, now, rl, mon, th, logged>>

Symbols == {"AAPL", "GOOG"}

PositionChanges == {-3, -1, 1, 2}

TradesGiven ==
    { [symbol |-> "AAPL", profit |-> 3, loss |-> 0],
      [symbol |-> "AAPL", profit |-> 0, loss |-> 2],
      [symbol |-> "GOOG", profit |-> 1, loss |-> 2] }

UpdatePosition ==
    /\ obs.n_fills < MaxFills
    /\ \E symbol \in Symbols, c \in PositionChanges :
          /\ rm' = RM_update_position(rm, c, symbol)
          /\ obs' = [obs EXCEPT !.n_fills = @ + 1, !.fills[symbol] = @ + c]
    /\ call' = Called("update_position", "None", <<>>)
    /\ UNCHANGED notRM

RecordTrade ==
    /\ obs.n_trades < MaxTrades
    /\ \E trade \in TradesGiven :
          /\ rm' = RM_record_trade(rm, trade, now)
          /\ obs' = [obs EXCEPT !.loss_on[Date(now)] = @ + trade.loss,
                                !.n_trades = @ + 1]
    /\ call' = Called("record_trade", "None", <<>>)
    /\ UNCHANGED notRM

CheckRiskLimits ==
    /\ LET res == RM_check_risk_limits(rm)
       IN  /\ call' = Called("check_risk_limits", Py(res.ret), res.checks)
           /\ obs' = Evaluated(obs, res.ret)
    /\ UNCHANGED <<notRM, rm>>

RealTimeRiskMonitoring ==
    /\ LET res == RM_real_time_risk_monitoring(rm)
       IN  /\ rm' = res.rm
           /\ call' = Called("real_time_risk_monitoring", Py(res.ret), res.checks)
           /\ obs' = Evaluated(obs, res.ret)
    /\ UNCHANGED notRM

ResetRisk ==
    /\ rm' = RM_reset_risk(rm)
    /\ call' = Called("reset_risk", "None", <<>>)
    /\ obs' = [obs EXCEPT !.failed = FALSE]
    /\ UNCHANGED notRM

----------------------------------------------------------------------------
(* RealTimeRiskMonitor (real_time_monitoring.py)                           *)

\* A symbol is its characters, so that startswith is computed
EQ1 == <<"E", "Q", "1">>
BTC == <<"B", "T", "C">>

StartsWith(symbol, prefix) ==
    Len(symbol) >= Len(prefix) /\ SubSeq(symbol, 1, Len(prefix)) = prefix

get_asset_class(symbol) ==
    IF StartsWith(symbol, <<"F", "X">>) THEN "Forex"
    ELSE IF StartsWith(symbol, <<"E", "Q">>) THEN "Equities"
    ELSE IF StartsWith(symbol, <<"C", "O", "M">>) THEN "Commodities"
    ELSE "Other"

\* get_risk_limits() is the configuration loader's; max_loss is a negative P&L
MonMaxPositionSize == 3
MonMaxLoss == -2
MonMaxExposure == 4

MonRiskLimits ==
    [ max_position_size |-> MonMaxPositionSize,
      max_loss          |-> MonMaxLoss,
      max_exposure_by_asset_class |->
          [c \in {"Forex", "Equities", "Commodities"} |-> MonMaxExposure] ]

MonitorInit ==
    [ update_interval |-> 1,
      positions       |-> EmptyDict,
      pnls            |-> EmptyDict,
      exposure_by_asset_class |-> EmptyDict,
      total_exposure  |-> 0,
      total_pnl       |-> 0,
      risk_limits     |-> MonRiskLimits,
      running         |-> FALSE ]

\* P&L is kept in units of fee_rate = 1/FeeRateDen of the currency
FeeRateDen == 10000

calculate_fees(position) == Abs(position.quantity * position.entry_price)

calculate_position_pnl(position, market_price) ==
    (market_price - position.entry_price) * position.quantity * FeeRateDen
        - calculate_fees(position)

calculate_pnl(positions, price) ==
    [symbol \in DOMAIN positions |->
        calculate_position_pnl(positions[symbol], price[symbol])]

ExposureOf(positions, symbols) ==
    SumOver([s \in symbols |-> positions[s].quantity * positions[s].entry_price],
            symbols)

update_exposure_by_asset_class(m) ==
    LET classes == {get_asset_class(s) : s \in DOMAIN m.positions}
    IN  [m EXCEPT !.exposure_by_asset_class =
            [c \in classes |->
                ExposureOf(m.positions,
                           {s \in DOMAIN m.positions : get_asset_class(s) = c})]]

TotalExposure(positions) ==
    SumOver([s \in DOMAIN positions |-> Abs(positions[s].quantity)],
            DOMAIN positions)

\* lines 35-36 of monitor_risk: done before the price lookups can fail
TickPositions(m, book) ==
    update_exposure_by_asset_class([m EXCEPT !.positions = book])

\* lines 37-39 of monitor_risk
TickTotals(m, price) ==
    LET pnls == calculate_pnl(m.positions, price)
    IN  [m EXCEPT !.pnls = pnls,
                  !.total_exposure = TotalExposure(m.positions),
                  !.total_pnl = DictSum(pnls)]

PositionSizeExceeded(m) == m.total_exposure > m.risk_limits.max_position_size

MaxLossBreached(m) == m.total_pnl < m.risk_limits.max_loss * FeeRateDen

\* the rule check of each step of check_risk_limits
RuleViolated(m, rule, class) ==
    CASE rule = "check_position" -> PositionSizeExceeded(m)
      [] rule = "check_loss"     -> MaxLossBreached(m)
      [] rule = "check_exposure" ->
            m.exposure_by_asset_class[class]
                > m.risk_limits.max_exposure_by_asset_class[class]

AlertMessage(rule, class) ==
    CASE rule = "check_position" -> <<"Max position size exceeded">>
      [] rule = "check_loss"     -> <<"Max loss threshold breached">>
      [] rule = "check_exposure" -> <<"Max exposure exceeded", class>>

\* the alert sent before the positions are liquidated
TriggerSteps_AlertFirst == <<"halt_trading", "send_alert", "liquidate_positions">>

\* trigger_risk_alert: the calls it makes, in order
TriggerSteps == <<"halt_trading", "liquidate_positions", "send_alert">>

LoggedInit ==
    [ halted |-> 0,          \* "Trading has been halted."
      liquidated |-> 0,      \* "Positions have been liquidated."
      alerts |-> 0,          \* "Sending alert: ..."
      alert_failures |-> 0,  \* "Failed to send alert. ..."
      errors |-> 0 ]         \* "Error in monitoring risk: ..."

(* The thread of monitor_risk.                                             *)
(*   pc       off | while | try | update_exposure | calculate_pnl |        *)
(*            total_exposure | total_pnl | check_position | check_loss |   *)
(*            check_exposure | trigger | post | sleep | exit               *)
(*   step     in trigger_risk_alert: the index in TriggerSteps of the      *)
(*            call to make next                                            *)
(*   back     where check_risk_limits goes on after trigger_risk_alert     *)
(*   todo     the asset classes the loop of check_risk_limits has left     *)
(*   items    the dictionary that loop iterates over: the object that      *)
(*            exposure_by_asset_class named when the loop began            *)
(*   checked  the rules checked in this evaluation                         *)
(*   alerted  the messages trigger_risk_alert was called with in it        *)
(*   undelivered  an alert of this evaluation was not delivered            *)
(*   twin     the thread a second start_monitoring starts, which runs the  *)
(*            same monitor_risk: off | while | try | exit                  *)

ThreadInit ==
    [ pc |-> "off", step |-> 0, back |-> "none", todo |-> {}, items |-> EmptyDict,
      checked |-> {}, alerted |-> {}, undelivered |-> FALSE, twin |-> "off" ]

Quantities == {-2, 3}
EntryPrices == {2}
MarketPrices == {1, 3}
MonSymbols == {EQ1, BTC}

\* what get_positions() may return
PositionBooks ==
    UNION { [held -> [quantity : Quantities, entry_price : EntryPrices]] :
                held \in SUBSET MonSymbols }

notMon == <<main, now, rl, rm, call>>

StartMonitoring ==
    /\ th.pc = "off"
    /\ mon' = [mon EXCEPT !.running = TRUE]
    /\ th' = [th EXCEPT !.pc = "while"]
    /\ UNCHANGED <<notMon, logged, obs>>

StopMonitoring ==
    /\ th.pc # "off"
    /\ mon.running
    /\ mon' = [mon EXCEPT !.running = FALSE]
    /\ UNCHANGED <<notMon, th, logged, obs>>

\* while self.running
LoopTest ==
    /\ th.pc = "while"
    /\ IF mon.running
       THEN /\ obs.n_ticks < MaxTicks
            /\ th' = [th EXCEPT !.pc = "try"]
            /\ obs' = [obs EXCEPT !.n_ticks = @ + 1]
       ELSE /\ th' = [th EXCEPT !.pc = "exit"]
            /\ obs' = obs
    /\ UNCHANGED <<notMon, mon, logged>>

\* an exception that no except clause catches: the thread ends
Caught_Uncaught(t) == [t EXCEPT !.pc = "exit", !.step = 0, !.back = "none", !.todo = {},
                     !.items = EmptyDict]

\* an exception reaches the except clause of monitor_risk
Caught(t) == [t EXCEPT !.pc = "sleep", !.step = 0, !.back = "none", !.todo = {},
                     !.items = EmptyDict]

\* get_positions() raises
TickNoPositions ==
    /\ th.pc = "try"
    /\ th' = Caught(th)
    /\ logged' = [logged EXCEPT !.errors = @ + 1]
    /\ UNCHANGED <<notMon, mon, obs>>

\* get_latest_data() raises: positions and exposure are new, the rest is old
TickNoPrice ==
    /\ th.pc = "try"
    /\ \E book \in PositionBooks :
          /\ book # EmptyDict
          /\ mon' = TickPositions(mon, book)
    /\ th' = Caught(th)
    /\ logged' = [logged EXCEPT !.errors = @ + 1]
    /\ UNCHANGED <<notMon, obs>>

Tick ==
    /\ th.pc = "try"
    /\ \E book \in PositionBooks :
       \E price \in [DOMAIN book -> MarketPrices] :
          mon' = TickTotals(TickPositions(mon, book), price)
    /\ th' = [th EXCEPT !.pc = "check_position"]
    /\ UNCHANGED <<notMon, logged, obs>>

(* The same tick statement by statement, for a run in which another     *)
(* thread reads the monitor's attributes in between.                     *)

\* self.positions = get_positions()
GetPositions ==
    /\ th.pc = "try"
    /\ \E book \in PositionBooks : mon' = [mon EXCEPT !.positions = book]
    /\ th' = [th EXCEPT !.pc = "update_exposure"]
    /\ UNCHANGED <<notMon, logged, obs>>

\* self.update_exposure_by_asset_class()
UpdateExposure ==
    /\ th.pc = "update_exposure"
    /\ mon' = update_exposure_by_asset_class(mon)
    /\ th' = [th EXCEPT !.pc = "calculate_pnl"]
    /\ UNCHANGED <<notMon, logged, obs>>

\* self.pnls = self.calculate_pnl(self.positions)
CalculatePnl ==
    /\ th.pc = "calculate_pnl"
    /\ \E price \in [DOMAIN mon.positions -> MarketPrices] :
          mon' = [mon EXCEPT !.pnls = calculate_pnl(mon.positions, price)]
    /\ th' = [th EXCEPT !.pc = "total_exposure"]
    /\ UNCHANGED <<notMon, logged, obs>>

\* get_latest_data() raises in calculate_pnl
CalculatePnlRaises ==
    /\ th.pc = "calculate_pnl"
    /\ mon.positions # EmptyDict
    /\ th' = Caught(th)
    /\ logged' = [logged EXCEPT !.errors = @ + 1]
    /\ UNCHANGED <<notMon, mon, obs>>

\* self.total_exposure = sum([abs(pos['quantity']) ...])
SumExposure ==
    /\ th.pc = "total_exposure"
    /\ mon' = [mon EXCEPT !.total_exposure = TotalExposure(mon.positions)]
    /\ th' = [th EXCEPT !.pc = "total_pnl"]
    /\ UNCHANGED <<notMon, logged, obs>>

\* self.total_pnl = sum(self.pnls.values())
SumPnl ==
    /\ th.pc = "total_pnl"
    /\ mon' = [mon EXCEPT !.total_pnl = DictSum(mon.pnls)]
    /\ th' = [th EXCEPT !.pc = "check_position"]
    /\ UNCHANGED <<notMon, logged, obs>>

generate_risk_report(m) ==
    [ total_exposure |-> m.total_exposure,
      total_pnl      |-> m.total_pnl,
      exposure_by_asset_class |-> m.exposure_by_asset_class,
      positions      |-> m.positions,
      pnls           |-> m.pnls ]

\* the main thread asks for a report
GenerateRiskReport ==
    /\ obs.n_reports < MaxReports
    /\ obs' = [obs EXCEPT !.n_reports = @ + 1,
                          !.report = Some(generate_risk_report(mon))]
    /\ UNCHANGED <<notMon, mon, th, logged>>

(* A second call of start_monitoring, which has no guard, and the thread *)
(* it starts.  An iteration of that thread is taken as one step.         *)

StartMonitoringAgain ==
    /\ th.pc # "off"
    /\ th.twin = "off"
    /\ mon' = [mon EXCEPT !.running = TRUE]
    /\ th' = [th EXCEPT !.twin = "while"]
    /\ UNCHANGED <<notMon, logged, obs>>

\* while self.running, in the second thread
TwinLoopTest ==
    /\ th.twin = "while"
    /\ IF mon.running
       THEN /\ obs.n_ticks < MaxTicks
            /\ th' = [th EXCEPT !.twin = "try"]
            /\ obs' = [obs EXCEPT !.n_ticks = @ + 1]
       ELSE /\ th' = [th EXCEPT !.twin = "exit"]
            /\ obs' = obs
    /\ UNCHANGED <<notMon, mon, logged>>

\* the rules check_risk_limits finds violated
RulesViolated(m) ==
    {rc \in ({"check_position", "check_loss"} \X {"all"})
                \cup ({"check_exposure"} \X DOMAIN m.exposure_by_asset_class) :
        RuleViolated(m, rc[1], rc[2])}

\* what get_positions() returns to the second thread: equities only
TwinBooks == {book \in PositionBooks : DOMAIN book \subseteq {EQ1}}

\* an iteration of the second thread in which nothing raises and every
\* alert is delivered, up to the end of its sleep
TwinIteration ==
    /\ th.twin = "try"
    /\ \E book \in TwinBooks :
       \E price \in [DOMAIN book -> MarketPrices] :
          LET m == TickTotals(TickPositions(mon, book), price)
              k == Cardinality(RulesViolated(m))
          IN  /\ mon' = m
              /\ logged' = [logged EXCEPT !.halted = @ + k,
                                          !.liquidated = @ + k,
                                          !.alerts = @ + k]
    /\ th' = [th EXCEPT !.twin = "while"]
    /\ UNCHANGED <<notMon, obs>>

\* an iteration of the second thread in which get_positions() raises
TwinNoPositions ==
    /\ th.twin = "try"
    /\ logged' = [logged EXCEPT !.errors = @ + 1]
    /\ th' = [th EXCEPT !.twin = "while"]
    /\ UNCHANGED <<notMon, mon, obs>>

\* where check_risk_limits goes after a rule
AfterRule(t, rule, class) ==
    CASE rule = "check_position" -> [t EXCEPT !.pc = "check_loss"]
      [] rule = "check_loss" ->
            [t EXCEPT !.pc = "check_exposure",
                      !.todo = DOMAIN mon.exposure_by_asset_class,
                      !.items = mon.exposure_by_asset_class]
      [] rule = "check_exposure" ->
            [t EXCEPT !.pc = "check_exposure", !.todo = @ \ {class}]

\* one rule of check_risk_limits: its test, and the call of trigger_risk_alert
CheckRule(rule, class) ==
    LET done == [AfterRule(th, rule, class) EXCEPT
                     !.checked = @ \cup {<<rule, class>>}]
        seen == IF rule = "check_exposure"
                THEN [mon EXCEPT !.exposure_by_asset_class = th.items]
                ELSE mon
    IN  IF RuleViolated(seen, rule, class)
        THEN th' = [done EXCEPT !.pc = "trigger", !.step = 1, !.back = done.pc,
                                !.alerted = @ \cup {AlertMessage(rule, class)}]
        ELSE th' = done

CheckPosition ==
    /\ th.pc = "check_position"
    /\ CheckRule("check_position", "all")
    /\ UNCHANGED <<notMon, mon, logged, obs>>

CheckLoss ==
    /\ th.pc = "check_loss"
    /\ CheckRule("check_loss", "all")
    /\ UNCHANGED <<notMon, mon, logged, obs>>

CheckExposure ==
    /\ th.pc = "check_exposure"
    /\ \E class \in th.todo :
          IF class \in DOMAIN mon.risk_limits.max_exposure_by_asset_class
          THEN /\ CheckRule("check_exposure", class)
               /\ logged' = logged
          ELSE /\ th' = Caught(th)                         \* KeyError
               /\ logged' = [logged EXCEPT !.errors = @ + 1]
    /\ UNCHANGED <<notMon, mon, obs>>

\* the loop is over: check_risk_limits returns
CheckDone ==
    /\ th.pc = "check_exposure"
    /\ th.todo = {}
    /\ th' = [th EXCEPT !.pc = "sleep", !.items = EmptyDict]
    /\ UNCHANGED <<notMon, mon, logged, obs>>

\* the next call of trigger_risk_alert, or its return
Stepped(t) ==
    IF t.step < Len(TriggerSteps)
    THEN [t EXCEPT !.step = @ + 1]
    ELSE [t EXCEPT !.pc = t.back, !.step = 0, !.back = "none"]

HaltTrading ==
    /\ th.pc = "trigger"
    /\ TriggerSteps[th.step] = "halt_trading"
    /\ logged' = [logged EXCEPT !.halted = @ + 1]
    /\ th' = Stepped(th)
    /\ UNCHANGED <<notMon, mon, obs>>

LiquidatePositions ==
    /\ th.pc = "trigger"
    /\ TriggerSteps[th.step] = "liquidate_positions"
    /\ logged' = [logged EXCEPT !.liquidated = @ + 1]
    /\ th' = Stepped(th)
    /\ UNCHANGED <<notMon, mon, obs>>

\* an update interval passes for a thread that stop_monitoring has not ended
Waited(o) ==
    IF ~mon.running THEN [o EXCEPT !.overdue = @ + 1] ELSE o

\* send_alert up to requests.post: the thread waits in the call, which has
\* no timeout
PostAlert ==
    /\ th.pc = "trigger"
    /\ TriggerSteps[th.step] = "send_alert"
    /\ logged' = [logged EXCEPT !.alerts = @ + 1]
    /\ th' = [th EXCEPT !.pc = "post"]
    /\ UNCHANGED <<notMon, mon, obs>>

\* the endpoint is slow: an update interval passes in requests.post
PostWaits ==
    /\ th.pc = "post"
    /\ obs.overdue < MaxOverdue
    /\ obs' = Waited(obs)
    /\ UNCHANGED <<notMon, mon, th, logged>>

\* send_alert: requests.post answers 200
SendAlert ==
    /\ th.pc = "post"
    /\ th' = Stepped([th EXCEPT !.pc = "trigger"])
    /\ UNCHANGED <<notMon, mon, logged, obs>>

\* send_alert: requests.post answers another status
SendAlertRefused ==
    /\ th.pc = "post"
    /\ logged' = [logged EXCEPT !.alert_failures = @ + 1]
    /\ th' = [Stepped([th EXCEPT !.pc = "trigger"]) EXCEPT !.undelivered = TRUE]
    /\ UNCHANGED <<notMon, mon, obs>>

\* send_alert: requests.post raises
SendAlertRaises ==
    /\ th.pc = "post"
    /\ logged' = [logged EXCEPT !.errors = @ + 1]
    /\ th' = [Caught(th) EXCEPT !.undelivered = TRUE]
    /\ UNCHANGED <<notMon, mon, obs>>

\* time.sleep(self.update_interval); the evaluation is over
Sleep ==
    /\ th.pc = "sleep"
    /\ th' = [th EXCEPT !.pc = "while", !.checked = {}, !.alerted = {},
                        !.undelivered = FALSE]
    /\ obs' = Waited(obs)
    /\ UNCHANGED <<notMon, mon, logged>>

\* What a caller can read of the halt from the monitor: halt_trading sets no
\* attribute, and the class has no is_halted
is_halted(m) == FALSE

\* The execution layer's gate submits an order
SubmitOrder ==
    /\ obs.submitted < MaxSubmits
    /\ obs' = [obs EXCEPT !.submitted = @ + 1,
                          !.accepted_after_halt =
                              IF ~is_halted(mon) /\ logged.halted > 0
                              THEN @ + 1 ELSE @]
    /\ UNCHANGED <<notMon, mon, th, logged>>

----------------------------------------------------------------------------
Constructed ==
    /\ now = 0
    /\ rl = RiskLimitsInit
    /\ rm = RiskManagerInit(0)
    /\ mon = MonitorInit
    /\ th = ThreadInit
    /\ logged = LoggedInit
    /\ call = Called("__init__", "None", <<>>)
    /\ obs = ObsInit

InitLimits == main = "limits" /\ Constructed

InitManager == main = "manager" /\ Constructed

InitMonitor == main = "monitor" /\ Constructed

(* The order-rate limiter under a moving clock. *)
NextRate == Advance \/ AdvanceDay \/ CheckOrderRate

SpecRate == InitLimits /\ [][NextRate]_vars

(* The daily-loss tracker of RiskLimits and the evaluation built on it. *)
NextLoss ==
    \/ UpdateTradeLoss
    \/ CheckDailyLossLimit
    \/ ResetDailyLimits
    \/ EvaluateRisk

SpecLoss == InitLimits /\ [][NextLoss]_vars

(* The RiskManager across a day boundary. *)
NextManager ==
    \/ RecordTrade
    \/ CheckRiskLimits
    \/ RealTimeRiskMonitoring
    \/ ResetRisk
    \/ AdvanceDay

SpecManager == InitManager /\ [][NextManager]_vars

(* The monitoring loop, its operator and the execution layer. *)
NextMonitor ==
    \/ StartMonitoring
    \/ StopMonitoring
    \/ LoopTest
    \/ TickNoPositions
    \/ TickNoPrice
    \/ Tick
    \/ CheckPosition
    \/ CheckLoss
    \/ CheckExposure
    \/ CheckDone
    \/ HaltTrading
    \/ LiquidatePositions
    \/ PostAlert
    \/ PostWaits
    \/ SendAlert
    \/ SendAlertRefused
    \/ SendAlertRaises
    \/ Sleep
    \/ SubmitOrder

SpecMonitor == InitMonitor /\ [][NextMonitor]_vars

(* The steps the thread of monitor_risk can take by itself. *)
LoopOn ==
    \/ LoopTest
    \/ TickNoPositions
    \/ TickNoPrice
    \/ Tick
    \/ CheckPosition
    \/ CheckLoss
    \/ CheckExposure
    \/ CheckDone
    \/ HaltTrading
    \/ LiquidatePositions
    \/ PostAlert
    \/ Sleep

(* The monitoring loop with start_monitoring called a second time. *)
NextRestart ==
    \/ StartMonitoring
    \/ StartMonitoringAgain
    \/ StopMonitoring
    \/ LoopTest
    \/ TickNoPositions
    \/ TickNoPrice
    \/ Tick
    \/ CheckPosition
    \/ CheckLoss
    \/ CheckExposure
    \/ CheckDone
    \/ HaltTrading
    \/ LiquidatePositions
    \/ PostAlert
    \/ SendAlert
    \/ SendAlertRefused
    \/ SendAlertRaises
    \/ Sleep
    \/ TwinLoopTest
    \/ TwinIteration
    \/ TwinNoPositions

SpecRestart == InitMonitor /\ [][NextRestart]_vars

(* The monitoring loop statement by statement, and the main thread that  *)
(* asks for reports.                                                     *)
NextReport ==
    \/ StartMonitoring
    \/ StopMonitoring
    \/ LoopTest
    \/ TickNoPositions
    \/ GetPositions
    \/ UpdateExposure
    \/ CalculatePnl
    \/ CalculatePnlRaises
    \/ SumExposure
    \/ SumPnl
    \/ CheckPosition
    \/ CheckLoss
    \/ CheckExposure
    \/ CheckDone
    \/ HaltTrading
    \/ LiquidatePositions
    \/ PostAlert
    \/ SendAlert
    \/ SendAlertRefused
    \/ SendAlertRaises
    \/ Sleep
    \/ GenerateRiskReport

SpecReport == InitMonitor /\ [][NextReport]_vars

(* The position limit in each place it is applied: a run drives one of  *)
(* the three objects.                                                   *)
InitAny == main \in {"limits", "manager", "monitor"} /\ Constructed

NextLimitsPositions == CanTakePosition \/ UpdatePositionSize \/ ClosePosition

NextManagerPositions ==
    UpdatePosition \/ CheckRiskLimits \/ RealTimeRiskMonitoring \/ ResetRisk

NextPositionLimit ==
    \/ main = "limits" /\ NextLimitsPositions
    \/ main = "manager" /\ NextManagerPositions
    \/ main = "monitor" /\ NextMonitor

SpecPositionLimit == InitAny /\ [][NextPositionLimit]_vars

(* The breached flag of RiskLimits under the calls that may follow a    *)
(* breach.                                                               *)
NextFlag == NextLoss \/ CheckOrderRate \/ ClosePosition

SpecFlag == InitLimits /\ [][NextFlag]_vars

(* A session of a RiskManager constructed as in the usage, with          *)
(* max_position_size = 1000 and max_daily_loss = 5000 and no custom      *)
(* limit: fills of 500 AAPL, and trades on AAPL that lose 600 or 4000.   *)
SessionManager ==
    [RiskManagerInit(0) EXCEPT !.max_position_size = 1000,
                               !.max_daily_loss = 5000,
                               !.risk_limits = <<>>]

SessionFills == {500}

SessionLosses == {600, 4000}

InitSession ==
    /\ main = "manager"
    /\ now = 0
    /\ rl = RiskLimitsInit
    /\ rm = SessionManager
    /\ mon = MonitorInit
    /\ th = ThreadInit
    /\ logged = LoggedInit
    /\ call = Called("__init__", "None", <<>>)
    /\ obs = ObsInit

\* update_position(500, 'AAPL')
SessionFill ==
    /\ obs.n_fills < MaxFills
    /\ \E c \in SessionFills :
          /\ rm' = RM_update_position(rm, c, "AAPL")
          /\ obs' = [obs EXCEPT !.n_fills = @ + 1, !.fills["AAPL"] = @ + c]
    /\ call' = Called("update_position", "None", <<>>)
    /\ UNCHANGED notRM

\* record_trade of a trade on AAPL that loses 600 or 4000
SessionTrade ==
    /\ obs.n_trades < MaxTrades
    /\ \E l \in SessionLosses :
          /\ rm' = RM_record_trade(rm, [symbol |-> "AAPL", profit |-> 0, loss |-> l], now)
          /\ obs' = [obs EXCEPT !.loss_on[Date(now)] = @ + l,
                                !.n_trades = @ + 1]
    /\ call' = Called("record_trade", "None", <<>>)
    /\ UNCHANGED notRM

NextSession ==
    \/ SessionFill
    \/ SessionTrade
    \/ CheckRiskLimits
    \/ RealTimeRiskMonitoring

SpecSession == InitSession /\ [][NextSession]_vars

(* Position updates of the RiskLimits behind its guard. *)
InitGuarded == main \in {"caller", "callers"} /\ Constructed

NextGuarded == GuardedCheck \/ GuardedUpdate \/ GuardedClose

SpecGuarded == InitGuarded /\ [][NextGuarded]_vars

(* The positions each object records: a run drives the RiskManager, or  *)
(* the RiskLimits with no trade loss recorded.                           *)
InitLedger == main \in {"limits", "manager"} /\ Constructed

NextManagerLedger ==
    \/ UpdatePosition
    \/ RecordTrade
    \/ CheckRiskLimits
    \/ RealTimeRiskMonitoring
    \/ ResetRisk

NextLimitsLedger ==
    \/ UpdatePositionSize
    \/ ClosePosition
    \/ EvaluateRisk
    \/ ResetDailyLimits

NextLedger ==
    \/ main = "manager" /\ NextManagerLedger
    \/ main = "limits" /\ NextLimitsLedger

SpecLedger == InitLedger /\ [][NextLedger]_vars

----------------------------------------------------------------------------
(* The claims *)

RMEvaluations == {"check_risk_limits", "real_time_risk_monitoring"}

\* the last call failed at check c, the last one it ran
FailedAt(c) == call.ret = "False" /\ call.checks[Len(call.checks)] = c

Ran(c) == \E i \in 1..Len(call.checks) : call.checks[i] = c

(* C1: enforcement is once per halt transition.  The monitor has no reset, *)
(* so it halts at most once: whatever the number of failing evaluations    *)
(* and of rules failing in one evaluation, liquidate_positions is called   *)
(* at most once and send_alert at most once.                               *)
C1_OneEnforcementPerHalt ==
    logged.liquidated <= 1 /\ logged.alerts <= 1

(* C2: no automatic recovery.  Once an evaluation of the RiskManager has   *)
(* failed, every later evaluation fails until reset_risk is called by the  *)
(* operator.                                                               *)
C2_NoAutomaticRecovery ==
    (call.op \in RMEvaluations /\ obs.failed) => call.ret = "False"

(* C3: once halt_trading has run, no order submitted by the execution      *)
(* layer is accepted.                                                      *)
C3_NoOrderAfterHalt ==
    obs.accepted_after_halt = 0

(* C4: trigger_risk_alert runs halt, then liquidate, then alert: at every  *)
(* moment each liquidation follows its halt and each alert its             *)
(* liquidation, and no halt starts before the alert of the trigger before  *)
(* it was sent.                                                            *)
C4_HaltLiquidateAlert ==
    /\ logged.alerts <= logged.liquidated
    /\ logged.liquidated <= logged.halted
    /\ logged.halted <= logged.alerts + 1
    /\ th.pc # "trigger" => logged.halted = logged.alerts

C4_Witness ==
    /\ th.pc = "trigger"
    /\ logged.halted = 2 /\ logged.liquidated = 2 /\ logged.alerts = 1

\* every rule of check_risk_limits was checked in this evaluation
AllRulesChecked ==
    th.checked = {<<"check_position", "all">>, <<"check_loss", "all">>}
                    \cup {<<"check_exposure", c>> :
                             c \in DOMAIN mon.exposure_by_asset_class}

(* C5: when an alert of an evaluation is not delivered (another status     *)
(* than 200, or the call raises), the halt and the liquidation have been   *)
(* done, the failure is logged, and every rule of the evaluation is still  *)
(* checked (every asset class held having a limit).                        *)
C5_AlertFailureDoesNotBlock ==
    ( /\ th.pc = "sleep"
      /\ th.undelivered
      /\ DOMAIN mon.exposure_by_asset_class
            \subseteq DOMAIN mon.risk_limits.max_exposure_by_asset_class )
    => /\ logged.halted >= 1 /\ logged.liquidated >= 1
       /\ logged.alert_failures + logged.errors >= 1
       /\ AllRulesChecked

\* the calls of check_order_rate that were at most w seconds before time t
CallsWithin(t, w) ==
    Cardinality({i \in 1..Len(obs.order_times) : t - obs.order_times[i] <= w})

(* C6: the order-rate limiter is a rolling 60-second window.  A call       *)
(* passes when the calls of the 60 seconds up to it, itself included, are  *)
(* at most max_orders_per_minute, and fails when the calls less than 60    *)
(* seconds before it, itself included, are more.                           *)
C6_RollingWindow ==
    call.op = "check_order_rate" =>
        LET t == Val(rl.last_order_time)
        IN  /\ CallsWithin(t, SecondsPerMinute) <= rl.max_orders_per_minute
                  => call.ret = "True"
            /\ CallsWithin(t, SecondsPerMinute - 1) > rl.max_orders_per_minute
                  => call.ret = "False"

(* C7: daily loss is not carried across a day boundary.  Once record_trade *)
(* has been called on the current date, the loss that check_risk_limits    *)
(* and _enforce_stop_loss compare with max_daily_loss holds only losses    *)
(* recorded on that date.                                                  *)
C7_NoLossAcrossDays ==
    rm.start_of_day = Date(now) => rm.current_loss <= obs.loss_on[Date(now)]

(* C8: check_daily_loss_limit called right after reset_daily_limits        *)
(* returns true and leaves daily_limit_breached false.                     *)
C8_ResetThenCheckPasses ==
    (call.op = "check_daily_loss_limit" /\ obs.after_reset)
        => (call.ret = "True" /\ ~rl.daily_limit_breached)

C8_Witness ==
    /\ call.op = "check_daily_loss_limit"
    /\ obs.after_reset
    /\ obs.reset_from.breached
    /\ Abs(obs.reset_from.loss) > rl.max_loss_per_day

\* some symbol's position is n in absolute value
SomeSymbolAt(n) ==
    \E s \in DOMAIN rm.position_tracker : Abs(rm.position_tracker[s]) = n

\* no symbol's position is more than n in absolute value
NoSymbolOver(n) ==
    \A s \in DOMAIN rm.position_tracker : Abs(rm.position_tracker[s]) <= n

(* C9: the position-size bound is inclusive in each place it is applied:   *)
(* a size of exactly max_position_size passes the position check, and a    *)
(* size of max_position_size + 1 fails it.                                 *)
C9_InclusiveBound ==
    /\ (call.op \in RMEvaluations /\ Ran("portfolio_position")) =>
          /\ Abs(rm.current_position_size) = rm.max_position_size
                => ~FailedAt("portfolio_position")
          /\ Abs(rm.current_position_size) = rm.max_position_size + 1
                => FailedAt("portfolio_position")
    /\ call.op = "real_time_risk_monitoring" =>
          /\ (SomeSymbolAt(rm.max_position_size) /\ NoSymbolOver(rm.max_position_size))
                => ~FailedAt("symbol_position")
          /\ SomeSymbolAt(rm.max_position_size + 1) => FailedAt("symbol_position")
    /\ call.op = "can_take_position" =>
          LET size == Abs(rl.current_position_size + Val(call.arg))
          IN  /\ size = rl.max_position_size => call.ret = "True"
              /\ size = rl.max_position_size + 1 => call.ret = "False"
    /\ <<"check_position", "all">> \in th.checked =>
          LET alerted == AlertMessage("check_position", "all") \in th.alerted
          IN  /\ mon.total_exposure = mon.risk_limits.max_position_size => ~alerted
              /\ mon.total_exposure = mon.risk_limits.max_position_size + 1 => alerted

C9_Witness ==
    /\ call.op = "check_risk_limits"
    /\ Abs(rm.current_position_size) = rm.max_position_size
    /\ call.ret = "True"

\* the bound met exactly in the other places it is applied
C9_AtLimitPerSymbol ==
    /\ call.op = "real_time_risk_monitoring"
    /\ SomeSymbolAt(rm.max_position_size)
    /\ NoSymbolOver(rm.max_position_size)
    /\ ~FailedAt("symbol_position")

C9_AtLimitCanTake ==
    /\ call.op = "can_take_position"
    /\ Abs(rl.current_position_size + Val(call.arg)) = rl.max_position_size
    /\ call.ret = "True"

C9_AtLimitMonitor ==
    /\ <<"check_position", "all">> \in th.checked
    /\ mon.total_exposure = mon.risk_limits.max_position_size
    /\ th.alerted = {}

C9_OverLimitMonitor ==
    /\ mon.total_exposure = mon.risk_limits.max_position_size + 1
    /\ AlertMessage("check_position", "all") \in th.alerted

(* C10: an evaluation runs every one of its checks: a check that fails     *)
(* does not keep the later checks from running.                            *)
C10_AllChecksPerformed ==
    call.op \in RMEvaluations => call.checks = RMAllChecks(rm, call.op)

\* the position of a symbol, as symbol_exposure reads it
PositionOf(symbol) ==
    IF symbol \in DOMAIN rm.position_tracker THEN rm.position_tracker[symbol] ELSE 0

\* the sum of the fills of all symbols
FillsOfAll == obs.fills["AAPL"] + obs.fills["GOOG"]

(* C11: the position limit is enforced at both granularities.  An          *)
(* evaluation of the RiskManager fails when the fills of all symbols       *)
(* together, or the fills of one symbol, exceed max_position_size in       *)
(* absolute value, whatever record_trade and reset_risk calls were made.   *)
C11_BothGranularities ==
    ( /\ call.op \in RMEvaluations
      /\ \/ Abs(FillsOfAll) > rm.max_position_size
         \/ \E s \in Symbols : Abs(obs.fills[s]) > rm.max_position_size )
    => call.ret = "False"

(* C12: the quantity recorded for a symbol is the signed sum of the fills  *)
(* applied to it (for the RiskLimits, which records one position, of the   *)
(* fills since the last close_position), whatever other operations were    *)
(* called.                                                                 *)
C12_QuantityIsSumOfFills ==
    /\ \A s \in Symbols : PositionOf(s) = obs.fills[s]
    /\ rl.current_position_size = obs.open

C12_Witness ==
    /\ call.op = "reset_risk"
    /\ rm.current_position_size = 0
    /\ obs.n_trades > 0
    /\ PositionOf("AAPL") = 3
    /\ obs.fills["AAPL"] = 3

\* the same for the one position of the RiskLimits
C12_AfterDailyReset ==
    /\ call.op = "reset_daily_limits"
    /\ rl.current_position_size = 3
    /\ obs.open = 3

\* the absolute notional of the positions of the symbols
AbsNotional(positions, symbols) ==
    SumOver([s \in symbols |->
                Abs(positions[s].quantity * positions[s].entry_price)],
            symbols)

(* C13: the total exposure the monitor computes for a tick is the sum of   *)
(* |quantity * entry_price| over the positions, and the exposure of each   *)
(* asset class is that absolute notional of the symbols of the class.      *)
C13_ExposureIsAbsoluteNotional ==
    th.pc = "check_position" =>
        /\ mon.total_exposure = AbsNotional(mon.positions, DOMAIN mon.positions)
        /\ \A c \in DOMAIN mon.exposure_by_asset_class :
              mon.exposure_by_asset_class[c] =
                  AbsNotional(mon.positions,
                              {s \in DOMAIN mon.positions : get_asset_class(s) = c})

(* C14: a fill that takes a symbol's position across zero is a flip: it   *)
(* appends one trade record (the P&L realized on the units closed) and     *)
(* leaves the remainder as the new position.                               *)
C14_FlipRealizes ==
    [][ \A s \in Symbols :
          (call'.op = "update_position" /\ PositionOf(s) * PositionOf(s)' < 0)
              => /\ PositionOf(s)' = obs'.fills[s]
                 /\ Len(rm'.trade_history) = Len(rm.trade_history) + 1 ]_vars

(* C15: check_daily_loss_limit returns false, and daily_limit_breached is  *)
(* set by it, exactly when |current_loss_per_day| > max_loss_per_day; and  *)
(* no call but reset_daily_limits clears the flag once it is set.          *)
C15_BreachedIsSticky ==
    /\ [](call.op = "check_daily_loss_limit" =>
            /\ call.ret = "False"
                  <=> Abs(rl.current_loss_per_day) > rl.max_loss_per_day
            /\ call.ret = "False" => rl.daily_limit_breached)
    /\ [][ /\ (rl.daily_limit_breached /\ call'.op # "reset_daily_limits")
                 => rl'.daily_limit_breached
           /\ (~rl.daily_limit_breached /\ rl'.daily_limit_breached)
                 => Abs(rl'.current_loss_per_day) > rl.max_loss_per_day ]_vars

C15_Witness ==
    /\ call.op = "check_daily_loss_limit"
    /\ call.ret = "True"
    /\ rl.daily_limit_breached
    /\ Len(rl.closed_positions) > 0
    /\ Len(obs.order_times) > 0

(* C16: update_trade_loss sets current_trade_loss to the loss of the trade *)
(* it is given, not to a running sum, and adds the loss to the daily loss. *)
C16_TradeLossIsLastTrade ==
    call.op = "update_trade_loss" =>
        /\ rl.current_trade_loss = Val(call.arg)
        /\ rl.current_loss_per_day = obs.loss_sum

(* C17: the monitoring loop stops within one tick: at most one update     *)
(* interval passes between the call of stop_monitoring and the end of the  *)
(* loop's thread, which begins no tick after the call.                     *)
C17_StopsWithinOneTick ==
    obs.overdue <= 1

\* the totals and exposures the code computes from the positions and pnls
\* of a report
ComputedFrom(r) ==
    LET m == update_exposure_by_asset_class([mon EXCEPT !.positions = r.positions])
    IN  [ total_exposure |-> TotalExposure(r.positions),
          total_pnl      |-> DictSum(r.pnls),
          exposure_by_asset_class |-> m.exposure_by_asset_class,
          positions      |-> r.positions,
          pnls           |-> r.pnls ]

(* C18: a report is a consistent snapshot: its pnls are those of its       *)
(* positions, and its total_exposure, total_pnl and                        *)
(* exposure_by_asset_class are the values computed from them.              *)
C18_ReportIsSnapshot ==
    obs.report # None =>
        LET r == Val(obs.report)
        IN  /\ DOMAIN r.pnls = DOMAIN r.positions
            /\ r = ComputedFrom(r)

(* C19: alert dispatch is off the evaluation path: while an alert is in   *)
(* requests.post, the thread of the monitoring loop has a step to take.    *)
C19_AlertOffHotPath ==
    th.pc = "post" => ENABLED LoopOn

\* one fill of 500 AAPL, and n trades that lost the given sum
SessionAt(n, lost) ==
    /\ obs.n_fills = 1
    /\ obs.fills["AAPL"] = 500
    /\ obs.n_trades = n
    /\ obs.loss_on[0] = lost
    /\ call.op \in RMEvaluations

(* C20: with max_position_size = 1000 and max_daily_loss = 5000, after a   *)
(* fill of 500 AAPL and two trades that lose 600 each the evaluation       *)
(* passes; after a third trade that loses 4000 (5200 in all) every         *)
(* evaluation fails, the first of them on the daily loss, and one          *)
(* liquidation and one alert have been issued.                             *)
C20_EndToEnd ==
    /\ SessionAt(2, 1200) => call.ret = "True"
    /\ SessionAt(3, 5200) =>
          /\ call.ret = "False"
          /\ logged.liquidated = 1
          /\ logged.alerts = 1

(* C21: liquidation on a halt closes every open position: once             *)
(* trigger_risk_alert has made its calls, no symbol of the monitor has a    *)
(* quantity other than 0 and the total exposure recorded is 0.             *)
C21_LiquidationClosesAll ==
    (th.alerted # {} /\ th.pc \notin {"trigger", "post"}) =>
        /\ \A symbol \in DOMAIN mon.positions :
              mon.positions[symbol].quantity = 0
        /\ mon.total_exposure = 0

(* C22: the rolling counter of check_order_rate.  The first call sets the   *)
(* count to 1; a later call adds 1 when the gap since the call before is   *)
(* at most 60 seconds and sets the count to 1 when it is longer, however   *)
(* long; each call records its time; and the call returns False exactly    *)
(* when the count it leaves exceeds max_orders_per_minute.                 *)
C22_RollingCounter ==
    [][ obs'.order_times # obs.order_times =>
          /\ rl'.last_order_time = Some(now)
          /\ rl'.orders_this_minute =
                IF rl.last_order_time = None THEN 1
                ELSE IF now - Val(rl.last_order_time) <= SecondsPerMinute
                     THEN rl.orders_this_minute + 1
                     ELSE 1
          /\ call'.ret = "False"
                <=> rl'.orders_this_minute > rl.max_orders_per_minute ]_vars

\* the cumulative profit after the first k trades of h
CumulativeProfit(h, k) == SeqSum([i \in 1..k |-> h[i].profit], k)

\* the largest decline of the cumulative profit from its highest value so far
CumulativeDrawdown(h) ==
    LET upto == {CumulativeProfit(h, j) - CumulativeProfit(h, k) :
                        <<j, k>> \in {jk \in (1..Len(h)) \X (1..Len(h)) : jk[1] <= jk[2]}}
    IN  IF h = <<>> THEN 0
        ELSE CHOOSE d \in upto : \A e \in upto : e <= d

(* C23: a custom limit passes exactly when its metric is at most its       *)
(* threshold, and _calculate_max_drawdown is the largest decline of the    *)
(* cumulative trade profit from its peak, 0 for an empty history.          *)
C23_DrawdownIsCumulative ==
    /\ RM__calculate_max_drawdown(rm) = CumulativeDrawdown(rm.trade_history)
    /\ \A i \in 1..Len(rm.risk_limits) :
          rm.risk_limits[i].metric = "max_drawdown" =>
              (RM__check_custom_limit(rm, rm.risk_limits[i])
                  <=> CumulativeDrawdown(rm.trade_history) * rm.risk_limits[i].value.d
                          <= rm.risk_limits[i].value.n)

(* C24: a collaborator's failure during a tick is logged and does not stop *)
(* monitoring.  A tick is abandoned only with one error logged; the thread *)
(* then sleeps, tests running and starts the next tick when it is true; it *)
(* ends only when running is false; and a step that finds a rule violated  *)
(* calls trigger_risk_alert and raises nothing.                            *)
C24_FailureIsLoggedAndLoopGoesOn ==
    [][ /\ (th'.pc = "sleep" /\ th.pc # "sleep")
             => \/ logged'.errors = logged.errors + 1
                \/ (th.pc = "check_exposure" /\ th.todo = {}
                       /\ logged' = logged)
        /\ logged'.errors # logged.errors
             => /\ logged'.errors = logged.errors + 1
                /\ th'.pc = "sleep"
                /\ th'.alerted = th.alerted
                /\ mon'.running = mon.running
        /\ (th.pc = "sleep" /\ th' # th) => th'.pc = "while"
        /\ (th.pc = "while" /\ th' # th)
             => th'.pc = IF mon.running THEN "try" ELSE "exit"
        /\ (th'.pc = "exit" /\ th.pc # "exit") => th.pc = "while"
        /\ th'.alerted # th.alerted
             => (th'.pc = "trigger" \/ th'.alerted = {}) ]_vars

C24_Witness ==
    /\ logged.errors = 1
    /\ logged.alerts >= 1
    /\ obs.n_ticks = 2
    /\ th.pc = "try"
    /\ mon.running

(* C25: the order-rate counter never undercounts.  After each call of      *)
(* check_order_rate, orders_this_minute is at least the number of calls    *)
(* made less than 60 seconds before it, itself included, so a call that a  *)
(* trailing-window limiter rejects is rejected.                            *)
C25_NeverUndercounts ==
    call.op = "check_order_rate" =>
        LET inWindow == CallsWithin(Val(rl.last_order_time), SecondsPerMinute - 1)
        IN  /\ rl.orders_this_minute >= inWindow
            /\ inWindow > rl.max_orders_per_minute => call.ret = "False"

C25_Witness ==
    /\ call.op = "check_order_rate"
    /\ call.ret = "False"
    /\ Len(obs.order_times) = 4
    /\ obs.order_times[1] < obs.order_times[2]
    /\ CallsWithin(Val(rl.last_order_time), SecondsPerMinute - 1) = 3
    /\ rl.orders_this_minute = 3

(* C26: the aggregate position of the RiskManager agrees with its ledger   *)
(* of symbols: current_position_size is the sum of position_tracker over   *)
(* the symbols, whatever calls were made.                                  *)
C26_AggregateIsSumOfSymbols ==
    rm.current_position_size = DictSum(rm.position_tracker)

\* the sum of the losses of the trades of a history
LossSum(h) == SeqSum([i \in 1..Len(h) |-> h[i].loss], Len(h))

\* the sums of a field of trade_metrics over the symbols
MetricsSum(r, field) ==
    DictSum([s \in DOMAIN r.trade_metrics |-> r.trade_metrics[s][field]])

(* C27: the loss aggregates of the RiskManager agree: current_loss is the  *)
(* sum of the losses of trade_history and the sum of total_loss over       *)
(* trade_metrics, the length of trade_history is the sum of total_trades,  *)
(* and reset_risk leaves all of them zero or empty.                        *)
C27_LossAggregatesAgree ==
    /\ rm.current_loss = LossSum(rm.trade_history)
    /\ rm.current_loss = MetricsSum(rm, "total_loss")
    /\ Len(rm.trade_history) = MetricsSum(rm, "total_trades")
    /\ call.op = "reset_risk" =>
          /\ rm.current_loss = 0
          /\ rm.trade_history = <<>>
          /\ rm.trade_metrics = EmptyDict
          /\ rm.daily_loss_tracker = EmptyDict

C27_Witness ==
    /\ obs.n_trades = 3
    /\ Len(rm.trade_history) = 2
    /\ Cardinality(DOMAIN rm.trade_metrics) = 2
    /\ rm.current_loss = 4

\* a thread is in the loop of monitor_risk
InLoop(pc) == pc \notin {"off", "exit"}

(* C28: at most one monitoring loop is active on a monitor: whatever the   *)
(* calls of start_monitoring and stop_monitoring, two threads are never    *)
(* in the loop of monitor_risk at the same time.                           *)
C28_OneLoopPerMonitor ==
    ~(InLoop(th.pc) /\ InLoop(th.twin))

(* C29: guarded position updates keep the limit.  With one caller that     *)
(* calls update_position_size(p) only after can_take_position(p) returned  *)
(* True, and close_position, |current_position_size| never exceeds         *)
(* max_position_size.  With two callers whose checks and updates           *)
(* interleave the bound can be exceeded: C29_TwoCallersExceed is reached.  *)
C29_GuardedUpdatesKeepLimit ==
    main = "caller" => Abs(rl.current_position_size) <= rl.max_position_size

C29_TwoCallersExceed ==
    /\ main = "callers"
    /\ call.op = "update_position_size"
    /\ rl.closed_positions = <<>>
    /\ Abs(rl.current_position_size) > rl.max_position_size

\* one caller, at the limit after two guarded updates, is refused a third
C29_OneCallerRefused ==
    /\ main = "caller"
    /\ call.op = "can_take_position"
    /\ call.ret = "False"
    /\ Len(rl.trades) = 2
    /\ Abs(rl.current_position_size) = rl.max_position_size

\* an evaluation's result is a failure on the daily loss
FailsOnDailyLoss(res) ==
    /\ ~res.ret
    /\ res.checks[Len(res.checks)] \in {"stop_loss", "daily_loss"}

(* C30: the two daily-loss checks of the RiskManager give the same         *)
(* verdict.  In every state whose positions are within the limit,          *)
(* real_time_risk_monitoring fails on the daily loss exactly when          *)
(* check_risk_limits does, that is when current_loss > max_daily_loss, and *)
(* it leaves trade_history, current_loss and daily_loss_tracker as they    *)
(* were.                                                                   *)
C30_SameDailyLossVerdict ==
    LET rt == RM_real_time_risk_monitoring(rm)
        cr == RM_check_risk_limits(rm)
    IN  (RM__enforce_position_limits(rm) /\ ~RM_PortfolioExceeded(rm)) =>
            /\ FailsOnDailyLoss(rt) <=> FailsOnDailyLoss(cr)
            /\ FailsOnDailyLoss(cr) <=> rm.current_loss > rm.max_daily_loss
            /\ rt.rm.trade_history = rm.trade_history
            /\ rt.rm.current_loss = rm.current_loss
            /\ rt.rm.daily_loss_tracker = rm.daily_loss_tracker

====
